---- MODULE Spec2Model ----
(***************************************************************************)
(* Model of the chatbot's query routing and retrieval pipeline:            *)
(*   src/chatbot/utils/query_router.py   (QueryRouter)                     *)
(*   src/chatbot/utils/rag_engine.py     (RAGEngine)                       *)
(*   src/chatbot/utils/snowflake_connector.py (SnowflakeConnector)         *)
(*   src/chatbot/app.py                  (the Streamlit chat session)      *)
(*                                                                         *)
(* Python strings the code inspects character by character (the classifier *)
(* label, the generated SQL) are sequences of one-character strings.  Text *)
(* that the code only builds (answers, summaries, error messages) is a     *)
(* sequence of parts, one part per literal or formatted field of the       *)
(* f-string that produces it.                                              *)
(***************************************************************************)
EXTENDS Integers, Sequences, FiniteSets, TLC

VARIABLES
    pc,          \* position of the current process_query call
    query,       \* the question being processed
    query_type,  \* local of process_query: the classification
    context,     \* local of process_query: the formatted retrieval context
    sql_query,   \* local of process_query: the cleaned generated SQL
    df,          \* local of process_query: the table the warehouse returned
    result,      \* the dict process_query returned
    calls,       \* collaborator calls made by the current process_query call
    callLog,     \* for each of those calls, what was passed and what came back
    raisedAt,    \* the step of the current call that raised ("none" if none)
    raisedText,  \* str(e) of the exception that step raised
    driverError, \* what the warehouse driver raised inside execute_query
    vector_store,\* RAGEngine.vector_store: the chunks, in insertion order
    ragCall,     \* the last retrieval call: its arguments and outcome
    lastAdd,     \* the last add_documents call: its argument and the store before
    batchOf,     \* for each chunk of the store, the insertion that put it there
    sqlRaw,      \* _generate_sql: the model's raw response
    sqlClean,    \* _generate_sql: the value returned for sqlRaw
    sumTable,    \* _generate_natural_response: its df argument
    sumResult,   \* _generate_natural_response: its outcome for sumTable
    messages,            \* app: st.session_state.messages, the transcript
    snowflake_connected, \* app: st.session_state.snowflake_connected
    sf_connector,        \* app: st.session_state.sf_connector (None if unset)
    rag_engine,          \* app: st.session_state.rag_engine (None if unset)
    query_router,        \* app: st.session_state.query_router (None if unset)
    chatCalls,           \* app: constructions and calls of the last script run
    ingest,      \* threads: where each thread's add_documents call stands
    owners,      \* threads: for each chunk of the store, the batch it came with
    observed,    \* threads: the last retrieve_context call made by a thread
    begun,       \* threads: the number of chunks of the batches begun so far
    schema_info,   \* QueryRouter.schema_info: the snapshot taken at construction
    schemaFetches, \* the get_schema_info calls the router has made
    nvdPc,         \* extract_cve_data: position of the call
    start_index,   \* extract_cve_data: local start_index
    total_results, \* extract_cve_data: local total_results (None until set)
    all_cves,      \* extract_cve_data: local all_cves
    requests,      \* extract_cve_data: the API requests made so far
    nvdResponse,   \* extract_cve_data: the outcome of the last request (response)
    nvdResult      \* extract_cve_data: the DataFrame returned

routerVars == <<pc, query, query_type, context, sql_query, df, result, calls,
                callLog, raisedAt, raisedText, driverError>>

ragVars == <<vector_store, ragCall, lastAdd, batchOf>>

sqlVars == <<sqlRaw, sqlClean>>

sumVars == <<sumTable, sumResult>>

appVars == <<messages, snowflake_connected, sf_connector, rag_engine, query_router,
             chatCalls>>

concVars == <<ingest, owners, observed, begun>>

schemaVars == <<schema_info, schemaFetches>>

nvdVars == <<nvdPc, start_index, total_results, all_cves, requests, nvdResponse,
            nvdResult>>

vars == <<routerVars, ragVars, sqlVars, sumVars, appVars, concVars, schemaVars,
          nvdVars>>

(***************************************************************************)
(* Bounds of the model.                                                    *)
(***************************************************************************)
MaxPad == 1     \* whitespace characters around a model response
MaxBody == 3    \* characters of query text inside a generated response
MaxRows == 11   \* rows of a result table
MaxCols == 3    \* columns of a result table
MaxK == 3       \* the k of a retrieve_context call
MaxStore == 10  \* chunks in the vector store
MaxMessages == 4  \* messages in the transcript
MaxConnects == 2  \* successful connections in a session
MaxTotal == 4     \* the totalResults an API response reports
MaxPage == 2      \* CVE records in one API response

(***************************************************************************)
(* Python values.                                                          *)
(***************************************************************************)
NoneVal == [none |-> TRUE]

\* The whitespace str.strip() removes.
Whitespace == {" ", "\t", "\n", "\r"}

UpperAlphabet ==
    <<"A","B","C","D","E","F","G","H","I","J","K","L","M",
      "N","O","P","Q","R","S","T","U","V","W","X","Y","Z">>

LowerAlphabet ==
    <<"a","b","c","d","e","f","g","h","i","j","k","l","m",
      "n","o","p","q","r","s","t","u","v","w","x","y","z">>

LowerChar(c) ==
    IF \E i \in 1..Len(UpperAlphabet) : UpperAlphabet[i] = c
    THEN LowerAlphabet[CHOOSE i \in 1..Len(UpperAlphabet) : UpperAlphabet[i] = c]
    ELSE c

\* str.lower()
Lower(s) == [i \in 1..Len(s) |-> LowerChar(s[i])]

RECURSIVE LStrip(_)
LStrip(s) ==
    IF s # <<>> /\ Head(s) \in Whitespace THEN LStrip(Tail(s)) ELSE s

RECURSIVE RStrip(_)
RStrip(s) ==
    IF s # <<>> /\ s[Len(s)] \in Whitespace
    THEN RStrip(SubSeq(s, 1, Len(s) - 1))
    ELSE s

\* str.strip()
Strip(s) == RStrip(LStrip(s))

\* str.startswith(p), str.endswith(p)
StartsWith(s, p) == Len(s) >= Len(p) /\ SubSeq(s, 1, Len(p)) = p

EndsWith(s, p) ==
    Len(s) >= Len(p) /\ SubSeq(s, Len(s) - Len(p) + 1, Len(s)) = p

\* s[n:] and s[:-n]
DropFirst(s, n) == SubSeq(s, n + 1, Len(s))

DropLast(s, n) == SubSeq(s, 1, Len(s) - n)

\* One part of a built text: a tag naming the literal or field, the numbers
\* and the strings formatted into it.
Part(tag, nums, strs) == [t |-> tag, n |-> nums, s |-> strs]

Lit(tag) == Part(tag, <<>>, <<>>)

(***************************************************************************)
(* QueryRouter._generate_sql: the clean-up of the model's response.        *)
(***************************************************************************)
\* The backtick character.
Backtick == "BACKTICK"

Fence == <<Backtick, Backtick, Backtick>>

FenceSql == Fence \o <<"s", "q", "l">>

\* A general sanitizer: every backtick removed, wherever it stands.
RECURSIVE RemoveBackticks(_)
RemoveBackticks(s) ==
    IF s = <<>> THEN <<>>
    ELSE IF Head(s) = Backtick THEN RemoveBackticks(Tail(s))
    ELSE <<Head(s)>> \o RemoveBackticks(Tail(s))

CleanSqlSanitizing(response) == Strip(RemoveBackticks(Strip(response)))

CleanSql(response) ==
    LET s0 == Strip(response)
        s1 == IF StartsWith(s0, FenceSql) THEN DropFirst(s0, 6) ELSE s0
        s2 == IF StartsWith(s1, Fence) THEN DropFirst(s1, 3) ELSE s1
        s3 == IF EndsWith(s2, Fence) THEN DropLast(s2, 3) ELSE s2
    IN  Strip(s3)

(***************************************************************************)
(* Result tables (pandas DataFrames).  A table has a dtype per column      *)
(* ("num" for a numeric dtype, "str" for object) and n rows; the cell of   *)
(* row r and numeric column c holds base * r * c, and every cell of an     *)
(* object column holds a string of its own.                                *)
(***************************************************************************)
Dtypes == {"num", "str"}

TableBases == {10, 1000, -7}

TablesOf(rowCounts, bases) ==
    { [cols |-> cs, n |-> rows, base |-> b] :
        cs \in UNION { [1..w -> Dtypes] : w \in 0..MaxCols },
        rows \in rowCounts,
        b \in bases }

Tables == TablesOf(0..MaxRows, TableBases)

\* len(df), df.empty
RowCount(d) == d.n

IsEmpty(d) == d.n = 0 \/ Len(d.cols) = 0

NumCell(d, r, c) == d.base * r * c

\* df.select_dtypes(include=['number']).columns, as column positions
NumericCols(d) == SelectSeq([c \in 1..Len(d.cols) |-> c], LAMBDA c : d.cols[c] = "num")

RECURSIVE SumRows(_, _, _)
SumRows(d, c, r) == IF r = 0 THEN 0 ELSE SumRows(d, c, r - 1) + NumCell(d, r, c)

\* df[col].sum()
ColSum(d, c) == SumRows(d, c, d.n)

Abs(v) == IF v < 0 THEN -v ELSE v

RECURSIVE Groups(_)
Groups(v) == IF v < 1000 THEN <<v>> ELSE Groups(v \div 1000) \o <<v % 1000>>

\* format(v, ",.2f") of a whole number: the sign, the groups of three digits
\* that the commas separate, and the two decimals.
Fmt2(v) == <<IF v < 0 THEN 1 ELSE 0>> \o Groups(Abs(v)) \o <<0>>

\* format(cell, "") of row.iloc[c]: a number, or the string of cell (r, c)
FmtPlain(d, r, c) ==
    IF d.cols[c] = "num" THEN <<0, NumCell(d, r, c)>> ELSE <<1, r, c>>

Returned(text) == [raised |-> FALSE, text |-> text]

Raised(text) == [raised |-> TRUE, text |-> text]

NoDataMessage == <<Lit("I couldn't find any data matching your query. Please try rephrasing your question.")>>

FoundPart(d) == Part("Found {len(df)} results. ", <<RowCount(d)>>, <<>>)

TotalPart(d, c) ==
    Part("The total {first_numeric} is {sum:,.2f}. ", <<c>> \o Fmt2(ColSum(d, c)), <<>>)

BulletPart(d, r) ==
    Part("* {row.iloc[0]}: {row.iloc[1]:,.2f}\n",
         FmtPlain(d, r, 1) \o Fmt2(NumCell(d, r, 2)), <<>>)

AllResultsPart == Lit("Here are all the results:\n\n")

TopTenPart == Lit("Top 10 results shown below.")

\* format(row.iloc[1], ",.2f") raises ValueError for a str
FormatError == <<Lit("Unknown format code 'f' for object of type 'str'")>>

(***************************************************************************)
(* QueryRouter._generate_natural_response                                  *)
(***************************************************************************)
GenerateNaturalResponse(d) ==
    IF d = NoneVal \/ IsEmpty(d)
    THEN Returned(NoDataMessage)
    ELSE
      LET summary == <<FoundPart(d)>> IN
      IF Len(d.cols) >= 2 /\ Len(NumericCols(d)) > 0
      THEN
        LET first_numeric == NumericCols(d)[1]
            withTotal == summary \o <<TotalPart(d, first_numeric)>>
        IN  IF RowCount(d) <= 10
            THEN IF d.cols[2] = "str"
                 THEN Raised(FormatError)
                 ELSE Returned(withTotal \o <<AllResultsPart>>
                               \o [r \in 1..RowCount(d) |-> BulletPart(d, r)])
            ELSE Returned(withTotal \o <<TopTenPart>>)
      ELSE Returned(summary)

(***************************************************************************)
(* RAGEngine.  A document is its text (named by id, with its length in     *)
(* characters) and its metadata dict.  A chunk is one piece of a document, *)
(* with the metadata of the document it was split from.  The FAISS store   *)
(* is the list of its chunks in insertion order.                           *)
(***************************************************************************)
ChunkSize == 1000

ChunkOverlap == 200

\* The four documents of _initialize_knowledge_base.
SeedDocs ==
    << [id |-> 1, len |-> 1877,
        metadata |-> [source |-> "schema", type |-> "database_schema"]],
       [id |-> 2, len |-> 1499,
        metadata |-> [source |-> "sql_patterns", type |-> "query_examples"]],
       [id |-> 3, len |-> 1120,
        metadata |-> [source |-> "metrics", type |-> "business_definitions"]],
       [id |-> 4, len |-> 897,
        metadata |-> [source |-> "business_rules", type |-> "data_quality"]] >>

\* Documents a caller passes to add_documents.
NewDocs ==
    { SeedDocs[4],
      [id |-> 5, len |-> 300, metadata |-> [source |-> "faq"]],
      [id |-> 6, len |-> 1500, metadata |-> [type |-> "notes"]] }

Batches == { <<a>> : a \in NewDocs } \cup { <<a, b>> : a, b \in NewDocs }

\* The chunks the splitter makes of a text of len characters: chunk_size
\* characters each, consecutive chunks sharing chunk_overlap characters.
NumChunks(len) ==
    IF len = 0 THEN 0
    ELSE IF len <= ChunkSize THEN 1
    ELSE 1 + ((len - ChunkSize) + (ChunkSize - ChunkOverlap) - 1)
                 \div (ChunkSize - ChunkOverlap)

\* The chunks of a document without its metadata.
DocChunksUntagged(doc) ==
    [i \in 1..NumChunks(doc.len) |->
        [doc |-> doc.id, piece |-> i, metadata |-> [type |-> "chunk"]]]

DocChunks(doc) ==
    [i \in 1..NumChunks(doc.len) |->
        [doc |-> doc.id, piece |-> i, metadata |-> doc.metadata]]

\* text_splitter.split_documents(documents)
RECURSIVE SplitDocuments(_)
SplitDocuments(documents) ==
    IF documents = <<>> THEN <<>>
    ELSE DocChunks(Head(documents)) \o SplitDocuments(Tail(documents))

Queries == {"q1", "q2"}

\* The embedding provider: the same text always gets the same vector.
EmbedQuery(q) == IF q = "q1" THEN 0 ELSE 3

EmbedChunk(c) == (c.doc * 3 + c.piece) % 5

\* The distance FAISS ranks by (smaller is more similar).
Distance(q, c) == Abs(EmbedQuery(q) - EmbedChunk(c))

\* The rankings of at most k of the positions in rest, nearest first; chunks
\* at the same distance come in either order.
RECURSIVE Rank(_, _, _, _)
Rank(store, q, rest, k) ==
    IF k = 0 \/ rest = {} THEN {<<>>}
    ELSE LET nearest == { i \in rest :
                            \A j \in rest : Distance(q, store[i]) <= Distance(q, store[j]) }
         IN  UNION { { <<i>> \o r : r \in Rank(store, q, rest \ {i}, k - 1) } :
                     i \in nearest }

EmbeddingError == <<Lit("embedding provider failed")>>

SearchKError == <<Lit("AssertionError")>>

\* The documents at the positions r of the index, with those positions.
SearchHits(store, r) ==
    [raised |-> FALSE, text |-> [i \in 1..Len(r) |-> store.docs[r[i]]], pos |-> r]

\* vector_store.similarity_search(query, k=k): the outcomes it can have.
\* The index search requires k > 0; what k = 0 does is left to the library.
SimilaritySearch(store, q, k, embedOk) ==
    IF ~embedOk THEN {Raised(EmbeddingError)}
    ELSE IF k = 0 THEN {Raised(SearchKError), Returned(<<>>)}
    ELSE { SearchHits(store, r) :
             r \in Rank(store.docs, q, 1..Len(store.docs), k) }

\* retrieve_context without its guard for a missing store.
RetrieveContextUnguarded(store, q, k, embedOk) ==
    IF store = NoneVal THEN {Raised(<<Lit("AttributeError")>>)}
    ELSE SimilaritySearch(store, q, k, embedOk)

\* RAGEngine.retrieve_context
RetrieveContext(store, q, k, embedOk) ==
    IF store = NoneVal THEN {Returned(<<>>)}
    ELSE SimilaritySearch(store, q, k, embedOk)

NoContextMessage == <<Lit("No relevant context found.")>>

\* doc.metadata.get('source', 'unknown')
SourceOf(c) ==
    IF "source" \in DOMAIN c.metadata THEN c.metadata.source ELSE "unknown"

\* The block numbered from 0, as enumerate counts.
ContextPartZeroBased(i, c) ==
    Part("Context {i+1} (Source: {source}):\n{page_content}",
         <<i - 1, c.doc, c.piece>>, <<SourceOf(c)>>)

ContextPart(i, c) ==
    Part("Context {i+1} (Source: {source}):\n{page_content}",
         <<i, c.doc, c.piece>>, <<SourceOf(c)>>)

\* get_relevant_context without its guard for no documents.
FormatContextNoSentinel(docs) ==
    [i \in 1..Len(docs) |-> ContextPart(i, docs[i])]

FormatContext(docs) ==
    IF docs = <<>> THEN NoContextMessage
    ELSE [i \in 1..Len(docs) |-> ContextPart(i, docs[i])]

\* RAGEngine.get_relevant_context: retrieve_context with the default k = 3
DefaultK == 3

GetRelevantContext(store, q, embedOk) ==
    { IF o.raised THEN o ELSE Returned(FormatContext(o.text)) :
        o \in RetrieveContext(store, q, DefaultK, embedOk) }

\* RAGEngine.__init__: the store holds the chunks of the seed documents.
\* FAISS.from_documents(splits, embeddings)
FromDocuments(splits) == [docs |-> splits]

\* len(store.index_to_docstore_id), 0 for no store
StoreSize(store) == IF store = NoneVal THEN 0 ELSE Len(store.docs)

SeedStore == FromDocuments(SplitDocuments(SeedDocs))

\* The seed load is insertion 0; an add_documents call is numbered by the
\* size of the store it found.
SeedBatch == [i \in 1..Len(SeedStore.docs) |-> 0]

RagInit ==
    /\ vector_store = SeedStore
    /\ ragCall = NoneVal
    /\ lastAdd = NoneVal
    /\ batchOf = SeedBatch

\* RAGEngine.__init__ before _initialize_knowledge_base: no store yet.  The
\* guards of add_documents and retrieve_context are for this state.
RagBare ==
    /\ vector_store = NoneVal
    /\ ragCall = NoneVal
    /\ lastAdd = NoneVal
    /\ batchOf = <<>>

\* RAGEngine._initialize_knowledge_base
InitializeKnowledgeBase ==
    /\ vector_store = NoneVal
    /\ vector_store' = SeedStore
    /\ batchOf' = SeedBatch
    /\ UNCHANGED <<ragCall, lastAdd>>
    /\ UNCHANGED <<routerVars, sqlVars, sumVars, appVars, concVars, schemaVars, nvdVars>>

\* The chunks add_documents has put in the store.
AddedChunks(store) ==
    IF store = NoneVal THEN 0
    ELSE IF Len(store.docs) >= Len(SeedStore.docs)
            /\ SubSeq(store.docs, 1, Len(SeedStore.docs)) = SeedStore.docs
         THEN Len(store.docs) - Len(SeedStore.docs)
         ELSE Len(store.docs)

\* add_documents skipping the chunks the store holds already.
AddDocumentsDeduplicating(documents) ==
    LET splits == SplitDocuments(documents)
        held   == IF vector_store = NoneVal THEN {}
                  ELSE { vector_store.docs[i] : i \in 1..Len(vector_store.docs) }
        fresh  == SelectSeq(splits, LAMBDA c : c \notin held)
    IN
    /\ AddedChunks(vector_store) + Len(splits) <= MaxStore - Len(SeedStore.docs)
    /\ vector_store' = IF vector_store # NoneVal
                       THEN [vector_store EXCEPT !.docs = @ \o fresh]
                       ELSE FromDocuments(fresh)
    /\ lastAdd' = [documents |-> documents, before |-> vector_store,
                   embedded |-> splits]
    /\ batchOf' = batchOf \o [i \in 1..Len(splits) |-> StoreSize(vector_store) + 1]
    /\ UNCHANGED ragCall
    /\ UNCHANGED <<routerVars, sqlVars, sumVars, appVars, concVars, schemaVars, nvdVars>>

\* add_documents making a new store of the batch whether or not one exists.
AddDocumentsReplacing(documents) ==
    LET splits == SplitDocuments(documents) IN
    /\ AddedChunks(vector_store) + Len(splits) <= MaxStore - Len(SeedStore.docs)
    /\ vector_store' = FromDocuments(splits)
    /\ lastAdd' = [documents |-> documents, before |-> vector_store,
                   embedded |-> splits]
    /\ batchOf' = batchOf \o [i \in 1..Len(splits) |-> StoreSize(vector_store) + 1]
    /\ UNCHANGED ragCall
    /\ UNCHANGED <<routerVars, sqlVars, sumVars, appVars, concVars, schemaVars, nvdVars>>

\* RAGEngine.add_documents
AddDocuments(documents) ==
    LET splits == SplitDocuments(documents) IN
    /\ AddedChunks(vector_store) + Len(splits) <= MaxStore - Len(SeedStore.docs)
    /\ vector_store' = IF vector_store # NoneVal
                       THEN [vector_store EXCEPT !.docs = @ \o splits]
                       ELSE FromDocuments(splits)
    /\ lastAdd' = [documents |-> documents, before |-> vector_store,
                   embedded |-> splits]
    /\ batchOf' = batchOf \o [i \in 1..Len(splits) |-> StoreSize(vector_store) + 1]
    /\ UNCHANGED ragCall
    /\ UNCHANGED <<routerVars, sqlVars, sumVars, appVars, concVars, schemaVars, nvdVars>>

\* A call retrieve_context(q, k) and its outcome.
Retrieve(q, k, embedOk) ==
    /\ \E o \in RetrieveContext(vector_store, q, k, embedOk) :
          ragCall' = [via |-> "retrieve_context",
                      query |-> q, k |-> k, embedOk |-> embedOk, before |-> vector_store,
                      raised |-> o.raised, docs |-> o.text,
                      pos |-> IF "pos" \in DOMAIN o THEN o.pos ELSE <<>>,
                      context |-> <<>>]
    /\ UNCHANGED <<vector_store, lastAdd, batchOf>>
    /\ UNCHANGED <<routerVars, sqlVars, sumVars, appVars, concVars, schemaVars, nvdVars>>

\* A call get_relevant_context(q) and its outcome.
GetContext(q, embedOk) ==
    /\ \E o \in RetrieveContext(vector_store, q, DefaultK, embedOk) :
          ragCall' = [via |-> "get_relevant_context",
                      query |-> q, k |-> DefaultK, embedOk |-> embedOk,
                      before |-> vector_store,
                      raised |-> o.raised,
                      docs |-> IF o.raised THEN <<>> ELSE o.text,
                      pos |-> IF "pos" \in DOMAIN o THEN o.pos ELSE <<>>,
                      context |-> IF o.raised THEN o.text ELSE FormatContext(o.text)]
    /\ UNCHANGED <<vector_store, lastAdd, batchOf>>
    /\ UNCHANGED <<routerVars, sqlVars, sumVars, appVars, concVars, schemaVars, nvdVars>>

(***************************************************************************)
(* RAGEngine used by several threads.  The engine takes no lock, so the    *)
(* statements of add_documents of one thread interleave with the calls of  *)
(* the others: the split (line 179), the test of self.vector_store (line   *)
(* 180), and then either the insertion into the existing store (line 181), *)
(* which puts the chunks in one after the other, or the assignment of a    *)
(* new store (line 183).                                                   *)
(***************************************************************************)
Threads == {1, 2}

\* The batches the threads ingest: one document each.
ConcBatches == { <<a>> : a \in NewDocs }

IngestIdle == [pc |-> "idle", batch |-> 0, splits |-> <<>>, inserted |-> 0]

ConcIdle ==
    /\ ingest = [t \in Threads |-> IngestIdle]
    /\ owners = <<>>
    /\ observed = NoneVal
    /\ begun = 0

\* _initialize_knowledge_base, run by the constructor before any thread
\* has the engine.
ConcInitialize ==
    /\ vector_store = NoneVal
    /\ \A t \in Threads : ingest[t] = IngestIdle
    /\ vector_store' = SeedStore
    /\ owners' = [i \in 1..Len(SeedStore.docs) |-> 0]
    /\ UNCHANGED <<ragCall, lastAdd, batchOf, ingest, observed, begun>>
    /\ UNCHANGED <<routerVars, sqlVars, sumVars, appVars, schemaVars, nvdVars>>

\* Line 179: thread t enters add_documents(documents) and splits.  A thread
\* makes one such call.
IngestBegin(t, documents) ==
    /\ ingest[t] = IngestIdle
    /\ ingest' = [ingest EXCEPT ![t] = [pc |-> "test", batch |-> t,
                                        splits |-> SplitDocuments(documents),
                                        inserted |-> 0]]
    /\ begun' = begun + Len(SplitDocuments(documents))
    /\ UNCHANGED <<ragVars, owners, observed>>
    /\ UNCHANGED <<routerVars, sqlVars, sumVars, appVars, schemaVars, nvdVars>>

\* Line 180: if self.vector_store
IngestTest(t) ==
    /\ ingest[t].pc = "test"
    /\ ingest' = [ingest EXCEPT ![t].pc =
                     IF vector_store # NoneVal THEN "add" ELSE "create"]
    /\ UNCHANGED <<ragVars, owners, observed, begun>>
    /\ UNCHANGED <<routerVars, sqlVars, sumVars, appVars, schemaVars, nvdVars>>

\* Line 181: the existing store takes the next chunk of the batch.
IngestInsert(t) ==
    /\ ingest[t].pc = "add"
    /\ ingest[t].inserted < Len(ingest[t].splits)
    /\ vector_store' = [vector_store EXCEPT
                           !.docs = Append(@, ingest[t].splits[ingest[t].inserted + 1])]
    /\ owners' = Append(owners, ingest[t].batch)
    /\ ingest' = [ingest EXCEPT
                     ![t].inserted = @ + 1,
                     ![t].pc = IF ingest[t].inserted + 1 = Len(ingest[t].splits)
                               THEN "done" ELSE "add"]
    /\ UNCHANGED <<ragCall, lastAdd, batchOf, observed, begun>>
    /\ UNCHANGED <<routerVars, sqlVars, sumVars, appVars, schemaVars, nvdVars>>

\* Line 183: self.vector_store = FAISS.from_documents(splits, ...)
IngestCreate(t) ==
    /\ ingest[t].pc = "create"
    /\ vector_store' = FromDocuments(ingest[t].splits)
    /\ owners' = [i \in 1..Len(ingest[t].splits) |-> ingest[t].batch]
    /\ ingest' = [ingest EXCEPT ![t].pc = "done",
                                ![t].inserted = Len(ingest[t].splits)]
    /\ UNCHANGED <<ragCall, lastAdd, batchOf, observed, begun>>
    /\ UNCHANGED <<routerVars, sqlVars, sumVars, appVars, schemaVars, nvdVars>>

\* Some thread is between the first and the last insertion of its batch.
MidInsertion ==
    \E t \in Threads :
        /\ ingest[t].pc = "add"
        /\ 0 < ingest[t].inserted

\* A thread calls retrieve_context(q) while the others are where they are.
ConcRetrieve(q) ==
    /\ \E o \in RetrieveContext(vector_store, q, DefaultK, TRUE) :
          observed' = [query |-> q, owners |-> owners,
                       midInsertion |-> MidInsertion, docs |-> o.text]
    /\ UNCHANGED <<ragVars, ingest, owners, begun>>
    /\ UNCHANGED <<routerVars, sqlVars, sumVars, appVars, schemaVars, nvdVars>>

(***************************************************************************)
(* The model responses and collaborator outcomes a call can meet.          *)
(***************************************************************************)
DataQuery == <<"d","a","t","a","_","q","u","e","r","y">>

Explanation == <<"e","x","p","l","a","n","a","t","i","o","n">>

General == <<"g","e","n","e","r","a","l">>

Labels == {DataQuery, Explanation, General}

\* Leading or trailing whitespace of a model response.
Pads == UNION { [1..n -> {" ", "\n"}] : n \in 0..MaxPad }

ClassifierWords ==
    Labels \cup
    { <<"G","e","n","e","r","a","l">>,
      <<"E","X","P","L","A","N","A","T","I","O","N">>,
      <<"D","a","t","a","_","Q","u","e","r","y">>,
      <<"d","a","t","a"," ","q","u","e","r","y">>,
      General \o <<".">>,
      <<"s","q","l">>,
      <<>> }

ClassifierResponses == { l \o w \o r : l \in Pads, r \in Pads, w \in ClassifierWords }

\* Query text: "S" stands for a character of SQL.
BodyChars == {"S", "\n", Backtick}

Bodies == UNION { [1..n -> BodyChars] : n \in 0..MaxBody }

LanguageTags == { <<>>, <<"s","q","l">>, <<"S","Q","L">>, <<"p","y">> }

\* Responses of the form  pad fence tag body fence pad, and the same with
\* either fence left out (a response without an opening fence has no tag).
SqlResponses ==
    { l \o open \o body \o close \o r :
        l \in Pads, r \in Pads, body \in Bodies, close \in {<<>>, Fence},
        open \in {<<>>} \cup { Fence \o tag : tag \in LanguageTags } }

RouterSqlResponses ==
    { <<>>,
      <<"S">>,
      Fence \o <<"s","q","l","\n","S","\n">> \o Fence,
      Fence \o <<"S","Q","L","\n","S","\n">> \o Fence }

RouterTables == TablesOf({0, 3, MaxRows}, {10})

LlmError == <<Lit("language model request failed")>>

DbErrors == {"SQL compilation error", "connection lost"}

ExplainAnswers(ctx, q) == { <<Part("{llm answer}", <<v>>, <<q>>)>> : v \in 1..2 }

\* SnowflakeConnector.execute_query wraps what the driver raised.
ExecuteFailed(dbError) ==
    <<Lit("Query execution failed: "), Part("{str(e)}", <<>>, <<dbError>>)>>


(***************************************************************************)
(* QueryRouter.process_query, one action per step of the call.             *)
(***************************************************************************)
Greeting ==
    <<Lit("Hello! I'm your Supply Chain Analytics assistant. I can help you analyze sales data, product performance, store metrics, and more. What would you like to know?")>>

GeneralResult == [answer |-> Greeting, dataframe |-> NoneVal]

\* The explanation answered with the fixed greeting.
ExplanationResultGreeting(answer) == [answer |-> Greeting, dataframe |-> NoneVal]

ExplanationResult(answer) == [answer |-> answer, dataframe |-> NoneVal]

SqlDetails(sql) == Part("\n\n<details>...{sql_query}...</details>", <<>>, sql)

SuccessResult(answer, d, sql) ==
    [answer |-> answer \o <<SqlDetails(sql)>>, dataframe |-> d, sql_query |-> sql]

\* The failure answer without the text of the exception.
FailureResultNoCause(e) ==
    [answer |-> <<Lit("I encountered an error processing your query.")>>,
     dataframe |-> NoneVal,
     error |-> e]

\* The failure dict without its error field.
FailureResultUnmarked(e) ==
    [answer |-> <<Lit("I encountered an error processing your query: ")>> \o e
                \o <<Lit("\n\nPlease try rephrasing your question or check the Snowflake connection.")>>,
     dataframe |-> NoneVal]

FailureResult(e) ==
    [answer |-> <<Lit("I encountered an error processing your query: ")>> \o e
                \o <<Lit("\n\nPlease try rephrasing your question or check the Snowflake connection.")>>,
     dataframe |-> NoneVal,
     error |-> e]

\* QueryRouter._classify_query, given the model's response
ClassifyQuery(response) == Lower(Strip(response))

\* The label compared with its capitalised spelling.
IsGeneralCapitalised(qt) == qt = <<"G","e","n","e","r","a","l">>

\* The tests process_query branches on.
IsGeneral(qt) == qt = General

\* Everything that is not a data_query taken for an explanation.
IsExplanationByDefault(qt) == qt # DataQuery

IsExplanation(qt) == qt = Explanation

\* The summary computed after the try block instead of inside it.
InTryWithoutSummary(step) ==
    step \in {"classify", "retrieve", "explain", "generate_sql", "execute"}

\* The steps of process_query inside its try block.
InTry(step) ==
    step \in {"classify", "retrieve", "explain", "generate_sql", "execute", "summarize"}

\* What get_schema_info returned when the router was constructed: for each
\* table, in order, its columns with their types.
SchemaInfos ==
    { <<>>,
      << [table |-> "FACT_SALES",
          columns |-> << [COLUMN_NAME |-> "AMOUNT", DATA_TYPE |-> "NUMBER"],
                         [COLUMN_NAME |-> "SOLD_ON", DATA_TYPE |-> "DATE"] >>],
         [table |-> "DIM_PRODUCT",
          columns |-> << [COLUMN_NAME |-> "NAME", DATA_TYPE |-> "TEXT"] >>] >> }

\* QueryRouter._format_schema_info
RECURSIVE FormatSchemaInfo(_)
FormatSchemaInfo(info) ==
    IF info = <<>> THEN <<>>
    ELSE <<Part("\n{table_name}:\n", <<>>, <<Head(info).table>>)>>
         \o [c \in 1..Len(Head(info).columns) |->
               Part("  - {col['COLUMN_NAME']} ({col['DATA_TYPE']})\n", <<>>,
                    <<Head(info).columns[c].COLUMN_NAME,
                      Head(info).columns[c].DATA_TYPE>>)]
         \o FormatSchemaInfo(Tail(info))

\* QueryRouter.__init__, line 45: the one get_schema_info call.
SchemaInit ==
    /\ schema_info \in SchemaInfos
    /\ schemaFetches = 1

\* No router has been constructed.
SchemaIdle ==
    /\ schema_info = <<>>
    /\ schemaFetches = 0

RouterInit ==
    /\ pc = "idle"
    /\ query = "q1"
    /\ query_type = <<>>
    /\ context = <<>>
    /\ sql_query = <<>>
    /\ df = NoneVal
    /\ result = NoneVal
    /\ calls = <<>>
    /\ callLog = <<>>
    /\ raisedAt = "none"
    /\ raisedText = <<>>
    /\ driverError = ""

\* A step that raised is run again.
RaiseAndRetry(step, e) ==
    /\ raisedAt' = step
    /\ raisedText' = e
    /\ pc' = step
    /\ result' = result

\* A step raises e: the except clause turns it into the failure result.
Raise(step, e) ==
    /\ raisedAt' = step
    /\ raisedText' = e
    /\ IF InTry(step)
       THEN pc' = "done" /\ result' = FailureResult(e)
       ELSE pc' = "crashed" /\ result' = NoneVal

\* A caller calls process_query(q): no call is running (none was made yet,
\* or the last one has returned or raised).
StartQuery(q) ==
    /\ pc \in {"idle", "done", "crashed"}
    /\ UNCHANGED <<ragVars, sqlVars, sumVars, appVars, concVars, schemaVars, nvdVars>>
    /\ pc' = "classify"
    /\ query' = q
    /\ query_type' = <<>>
    /\ context' = <<>>
    /\ sql_query' = <<>>
    /\ df' = NoneVal
    /\ result' = NoneVal
    /\ calls' = <<>>
    /\ callLog' = <<>>
    /\ raisedAt' = "none"
    /\ raisedText' = <<>>
    /\ driverError' = ""

\* The call just made is logged with its arguments and what it returned, or
\* as having raised.
LogCall(args, ret) ==
    callLog' = Append(callLog, [args |-> args, ret |-> ret, raised |-> FALSE])

LogRaise(args) ==
    callLog' = Append(callLog, [args |-> args, ret |-> NoneVal, raised |-> TRUE])

Classify ==
    /\ pc = "classify"
    /\ UNCHANGED <<ragVars, sqlVars, sumVars, appVars, concVars, schemaVars, nvdVars>>
    /\ calls' = Append(calls, "classify")
    /\ UNCHANGED <<query, context, sql_query, df, driverError>>
    /\ \/ /\ Raise("classify", LlmError)
          /\ LogRaise([query |-> query])
          /\ UNCHANGED query_type
       \/ /\ \E response \in ClassifierResponses :
                /\ query_type' = ClassifyQuery(response)
                /\ LogCall([query |-> query], response)
          /\ IF IsGeneral(query_type')
             THEN pc' = "done" /\ result' = GeneralResult
             ELSE pc' = "retrieve" /\ result' = result
          /\ UNCHANGED <<raisedAt, raisedText>>

RetrieveStep ==
    /\ pc = "retrieve"
    /\ UNCHANGED <<ragVars, sqlVars, sumVars, appVars, concVars, schemaVars, nvdVars>>
    /\ calls' = Append(calls, "retrieve")
    /\ UNCHANGED <<query, query_type, sql_query, df, driverError>>
    /\ \E embedOk \in BOOLEAN :
         \E o \in GetRelevantContext(vector_store, query, embedOk) :
           IF o.raised
           THEN /\ Raise("retrieve", o.text)
                /\ LogRaise([query |-> query])
                /\ UNCHANGED context
           ELSE /\ context' = o.text
                /\ LogCall([query |-> query], o.text)
                /\ pc' = IF IsExplanation(query_type) THEN "explain" ELSE "generate_sql"
                /\ UNCHANGED <<result, raisedAt, raisedText>>

Explain ==
    /\ pc = "explain"
    /\ UNCHANGED <<ragVars, sqlVars, sumVars, appVars, concVars, schemaVars, nvdVars>>
    /\ calls' = Append(calls, "explain")
    /\ UNCHANGED <<query, query_type, context, sql_query, df, driverError>>
    /\ \/ /\ Raise("explain", LlmError)
          /\ LogRaise([context |-> context, question |-> query])
       \/ /\ \E answer \in ExplainAnswers(context, query) :
                /\ result' = ExplanationResult(answer)
                /\ LogCall([context |-> context, question |-> query], answer)
          /\ pc' = "done"
          /\ UNCHANGED <<raisedAt, raisedText>>

\* _generate_sql returning the model's response as it came.
GenerateSqlUncleaned ==
    /\ pc = "generate_sql"
    /\ UNCHANGED <<ragVars, sqlVars, sumVars, appVars, concVars, schemaVars, nvdVars>>
    /\ calls' = Append(calls, "generate_sql")
    /\ UNCHANGED <<query, query_type, context, df, driverError>>
    /\ \/ /\ Raise("generate_sql", LlmError)
          /\ LogRaise([context |-> context, query |-> query,
                             schema_info |-> FormatSchemaInfo(schema_info)])
          /\ UNCHANGED sql_query
       \/ /\ \E response \in RouterSqlResponses :
                /\ sql_query' = response
                /\ LogCall([context |-> context, query |-> query,
                            schema_info |-> FormatSchemaInfo(schema_info)], response)
          /\ pc' = "execute"
          /\ UNCHANGED <<result, raisedAt, raisedText>>

\* _generate_sql fetching the schema again before it builds the prompt.
GenerateSqlRefreshingSchema ==
    /\ pc = "generate_sql"
    /\ UNCHANGED <<ragVars, sqlVars, sumVars, appVars, concVars, nvdVars>>
    /\ calls' = Append(calls, "generate_sql")
    /\ UNCHANGED <<query, query_type, context, df, driverError>>
    /\ \E fresh \in SchemaInfos :
          /\ schema_info' = fresh
          /\ schemaFetches' = schemaFetches + 1
          /\ \/ /\ Raise("generate_sql", LlmError)
                /\ LogRaise([context |-> context, query |-> query,
                             schema_info |-> FormatSchemaInfo(fresh)])
                /\ UNCHANGED sql_query
             \/ /\ \E response \in RouterSqlResponses :
                      /\ sql_query' = CleanSql(response)
                      /\ LogCall([context |-> context, query |-> query,
                                  schema_info |-> FormatSchemaInfo(fresh)], response)
                /\ pc' = "execute"
                /\ UNCHANGED <<result, raisedAt, raisedText>>

GenerateSql ==
    /\ pc = "generate_sql"
    /\ UNCHANGED <<ragVars, sqlVars, sumVars, appVars, concVars, schemaVars, nvdVars>>
    /\ calls' = Append(calls, "generate_sql")
    /\ UNCHANGED <<query, query_type, context, df, driverError>>
    /\ \/ /\ Raise("generate_sql", LlmError)
          /\ LogRaise([context |-> context, query |-> query,
                             schema_info |-> FormatSchemaInfo(schema_info)])
          /\ UNCHANGED sql_query
       \/ /\ \E response \in RouterSqlResponses :
                /\ sql_query' = CleanSql(response)
                /\ LogCall([context |-> context, query |-> query,
                            schema_info |-> FormatSchemaInfo(schema_info)], response)
          /\ pc' = "execute"
          /\ UNCHANGED <<result, raisedAt, raisedText>>

Execute ==
    /\ pc = "execute"
    /\ UNCHANGED <<ragVars, sqlVars, sumVars, appVars, concVars, schemaVars, nvdVars>>
    /\ calls' = Append(calls, "execute")
    /\ UNCHANGED <<query, query_type, context, sql_query>>
    /\ \/ /\ \E m \in DbErrors :
                /\ driverError' = m
                /\ Raise("execute", ExecuteFailed(m))
          /\ LogRaise([query |-> sql_query])
          /\ UNCHANGED df
       \/ /\ \E d \in RouterTables :
                /\ df' = d
                /\ LogCall([query |-> sql_query], d)
          /\ pc' = "summarize"
          /\ UNCHANGED <<result, raisedAt, raisedText, driverError>>

Summarize ==
    /\ pc = "summarize"
    /\ UNCHANGED <<ragVars, sqlVars, sumVars, appVars, concVars, schemaVars, nvdVars>>
    /\ calls' = Append(calls, "summarize")
    /\ UNCHANGED <<query, query_type, context, sql_query, df, driverError>>
    /\ LET o == GenerateNaturalResponse(df) IN
         IF o.raised
         THEN /\ Raise("summarize", o.text)
              /\ LogRaise([query |-> query, df |-> df])
         ELSE /\ result' = SuccessResult(o.text, df, sql_query)
              /\ LogCall([query |-> query, df |-> df], o.text)
              /\ pc' = "done"
              /\ UNCHANGED <<raisedAt, raisedText>>

(***************************************************************************)
(* src/chatbot/app.py: the Streamlit session, one action per script run    *)
(* that a widget triggers.                                                 *)
(***************************************************************************)
Prompts == {"What were the top 5 products by revenue?", "hello"}

ExampleQuestions == {"What were the top 5 products by revenue?"}

UserMessage(prompt) ==
    [role |-> "user", content |-> <<Part("{prompt}", <<>>, <<prompt>>)>>,
     chart |-> NoneVal, dataframe |-> NoneVal]

AssistantMessage(content, chart, d) ==
    [role |-> "assistant", content |-> content, chart |-> chart, dataframe |-> d]

NotConnectedMessage ==
    <<Lit("(warning sign) Please connect to Snowflake first using the sidebar configuration.")>>

ErrorMessage(e) == <<Lit("(cross mark) Error: ")>> \o e

EngineError == <<Lit("embedding model could not be loaded")>>

RouterError == <<Lit("language model or schema could not be loaded")>>

PlotError == <<Lit("chart could not be drawn")>>

AppTables ==
    { [cols |-> <<"str", "num">>, n |-> 3, base |-> 10],
      [cols |-> <<"num">>, n |-> 3, base |-> 10],
      [cols |-> <<"str", "str">>, n |-> 0, base |-> 10] }

\* What process_query can return to the app.
ProcessQueryResults ==
    {GeneralResult, FailureResult(LlmError)}
    \cup { LET o == GenerateNaturalResponse(d) IN
           IF o.raised THEN FailureResult(o.text)
           ELSE SuccessResult(o.text, d, <<"S">>) : d \in AppTables }

\* The chart the app draws for a table: a bar chart of the first numeric
\* column over the first non-numeric column (or the first column).
ChartOf(d) ==
    IF Len(d.cols) >= 2 /\ NumericCols(d) # <<>>
    THEN LET others == SelectSeq([c \in 1..Len(d.cols) |-> c],
                                 LAMBDA c : d.cols[c] # "num") IN
         [y |-> NumericCols(d)[1],
          x |-> IF others # <<>> THEN others[1] ELSE 1]
    ELSE NoneVal

\* The assistant message the app stores for a result, or the error message
\* when drawing the chart raised.
ReplyFor(res, plotOk) ==
    IF res.dataframe # NoneVal
    THEN IF ChartOf(res.dataframe) # NoneVal /\ ~plotOk
         THEN AssistantMessage(ErrorMessage(PlotError), NoneVal, NoneVal)
         ELSE AssistantMessage(res.answer, ChartOf(res.dataframe), res.dataframe)
    ELSE AssistantMessage(res.answer, NoneVal, NoneVal)

AppInit ==
    /\ messages = <<>>
    /\ snowflake_connected = FALSE
    /\ sf_connector = NoneVal
    /\ rag_engine = NoneVal
    /\ query_router = NoneVal
    /\ chatCalls = <<>>

Connections == IF sf_connector = NoneVal THEN 0 ELSE sf_connector.id

\* The "Connect to Snowflake" button.
Connect(ok) ==
    /\ Connections < MaxConnects
    /\ IF ok
       THEN /\ sf_connector' = [id |-> Connections + 1]
            /\ snowflake_connected' = TRUE
       ELSE UNCHANGED <<sf_connector, snowflake_connected>>
    /\ chatCalls' = <<>>
    /\ UNCHANGED <<messages, rag_engine, query_router>>
    /\ UNCHANGED <<routerVars, ragVars, sqlVars, sumVars, concVars, schemaVars, nvdVars>>

\* An example-question button.
ExampleQuestion(q) ==
    /\ Len(messages) < MaxMessages
    /\ messages' = Append(messages, UserMessage(q))
    /\ chatCalls' = <<>>
    /\ UNCHANGED <<snowflake_connected, sf_connector, rag_engine, query_router>>
    /\ UNCHANGED <<routerVars, ragVars, sqlVars, sumVars, concVars, schemaVars, nvdVars>>

\* The chat turn when the warehouse is connected (the else branch): what it
\* leaves in the session, the calls it makes and the message it stores.
ConnectedTurn(engineOk, routerOk, res, plotOk) ==
    LET needEngine == rag_engine = NoneVal
        needRouter == query_router = NoneVal
        c1 == IF needEngine THEN <<"RAGEngine">> ELSE <<>>
    IN
    IF needEngine /\ ~engineOk
    THEN [rag_engine |-> NoneVal, query_router |-> query_router, calls |-> c1,
          reply |-> AssistantMessage(ErrorMessage(EngineError), NoneVal, NoneVal)]
    ELSE LET engine == IF needEngine THEN [store |-> SeedStore] ELSE rag_engine
             c2 == IF needRouter THEN Append(c1, "QueryRouter") ELSE c1
         IN
         IF needRouter /\ ~routerOk
         THEN [rag_engine |-> engine, query_router |-> NoneVal, calls |-> c2,
               reply |-> AssistantMessage(ErrorMessage(RouterError), NoneVal, NoneVal)]
         ELSE [rag_engine |-> engine,
               query_router |-> IF needRouter
                                THEN [sf_connector |-> sf_connector, rag_engine |-> engine]
                                ELSE query_router,
               calls |-> Append(c2, "process_query"),
               reply |-> ReplyFor(res, plotOk)]

\* The turn with the connection test dropped.
ChatTurnUnguarded(engineOk, routerOk, res, plotOk) ==
    ConnectedTurn(engineOk, routerOk, res, plotOk)

\* The chat turn inside the try block.
ChatTurn(engineOk, routerOk, res, plotOk) ==
    IF ~snowflake_connected
    THEN [rag_engine |-> rag_engine, query_router |-> query_router, calls |-> <<>>,
          reply |-> AssistantMessage(NotConnectedMessage, NoneVal, NoneVal)]
    ELSE ConnectedTurn(engineOk, routerOk, res, plotOk)

\* The chat input: a question typed by the user.
Chat(prompt) ==
    /\ Len(messages) + 2 <= MaxMessages
    /\ \E engineOk, routerOk, plotOk \in BOOLEAN : \E res \in ProcessQueryResults :
          LET t == ChatTurn(engineOk, routerOk, res, plotOk) IN
          /\ messages' = messages \o <<UserMessage(prompt), t.reply>>
          /\ rag_engine' = t.rag_engine
          /\ query_router' = t.query_router
          /\ chatCalls' = t.calls
    /\ UNCHANGED <<snowflake_connected, sf_connector>>
    /\ UNCHANGED <<routerVars, ragVars, sqlVars, sumVars, concVars, schemaVars, nvdVars>>

(***************************************************************************)
(* src/data_pipeline/extract/nist_nvd_extractor.py:                        *)
(* NISTNVDExtractor.extract_cve_data, one action per iteration of its loop. *)
(***************************************************************************)
\* No extraction has been started.
NvdIdle ==
    /\ nvdPc = "idle"
    /\ start_index = 0
    /\ total_results = NoneVal
    /\ all_cves = <<>>
    /\ requests = 0
    /\ nvdResponse = NoneVal
    /\ nvdResult = NoneVal

\* A key the JSON object of a response does not have.
Absent == [absent |-> TRUE]

\* The records of the response to request r: record i is identified by the
\* request and its place in the page.
Vulnerabilities(r, n) == [i \in 1..n |-> [cve |-> [id |-> <<r, i>>]]]

\* What session.get, raise_for_status and response.json can produce for
\* request r: a RequestException ("error"); a JSON body that is not an
\* object ("not_object"); or a JSON object whose totalResults is a number,
\* null or absent, with a list of records of which record `bad` (0: none) is
\* one _parse_cve raises on.
Responses(r) ==
    {[kind |-> "error"], [kind |-> "not_object"]}
    \cup { [kind |-> "page", totalResults |-> t,
            vulnerabilities |-> Vulnerabilities(r, n), bad |-> b] :
              t \in {[value |-> v] : v \in 0..MaxTotal} \cup {NoneVal, Absent},
              n \in 0..MaxPage, b \in 0..MaxPage }

\* data.get('totalResults', 0)
TotalResultsOf(data) ==
    IF data.totalResults = Absent THEN [value |-> 0] ELSE data.totalResults

\* _parse_cve: the flat record of one CVE, keyed by the id of the CVE.
ParseCve(vuln) == [cve_id |-> vuln.cve.id]

\* start_index += len(vulnerabilities), advancing by the page size instead.
AdvancedIndexByPageSize(vulnerabilities) == start_index + MaxPage

\* start_index += len(vulnerabilities)
AdvancedIndex(vulnerabilities) == start_index + Len(vulnerabilities)

\* extract_cve_data up to the loop: the locals are initialised.
ExtractCveData ==
    /\ nvdPc = "idle"
    /\ nvdPc' = "loop"
    /\ all_cves' = <<>>
    /\ start_index' = 0
    /\ total_results' = NoneVal
    /\ UNCHANGED <<requests, nvdResponse, nvdResult>>
    /\ UNCHANGED <<routerVars, ragVars, sqlVars, sumVars, appVars, concVars, schemaVars>>

\* One iteration of the while loop, for the outcome resp of its request.
\* The position after it is "loop" (next iteration), "after" (break) or
\* "raised" (an exception other than RequestException left the function).
Iteration(resp) ==
    /\ nvdPc = "loop"
    /\ requests' = requests + 1
    /\ nvdResponse' = resp
    /\ CASE resp.kind = "error" ->
             /\ nvdPc' = "after"
             /\ UNCHANGED <<start_index, total_results, all_cves>>
         [] resp.kind = "not_object" ->
             /\ nvdPc' = "raised"
             /\ UNCHANGED <<start_index, total_results, all_cves>>
         [] resp.kind = "page" ->
             LET total == IF total_results = NoneVal THEN TotalResultsOf(resp)
                          ELSE total_results
                 vulnerabilities == resp.vulnerabilities
                 bad == IF resp.bad <= Len(vulnerabilities) THEN resp.bad ELSE 0
             IN  /\ total_results' = total
                 /\ IF vulnerabilities = <<>>
                    THEN /\ nvdPc' = "after"
                         /\ UNCHANGED <<start_index, all_cves>>
                    ELSE IF bad > 0
                    THEN /\ all_cves' = all_cves \o
                              [i \in 1..(bad - 1) |-> ParseCve(vulnerabilities[i])]
                         /\ nvdPc' = "raised"
                         /\ UNCHANGED start_index
                    ELSE /\ all_cves' = all_cves \o
                              [i \in 1..Len(vulnerabilities) |-> ParseCve(vulnerabilities[i])]
                         /\ start_index' = AdvancedIndex(vulnerabilities)
                         /\ nvdPc' = IF total = NoneVal THEN "raised"
                                     ELSE IF start_index' >= total.value THEN "after"
                                     ELSE "loop"
    /\ UNCHANGED nvdResult
    /\ UNCHANGED <<routerVars, ragVars, sqlVars, sumVars, appVars, concVars, schemaVars>>

\* After the loop: the DataFrame of all_cves is saved to the CSV file and
\* returned.
ReturnFrame ==
    /\ nvdPc = "after"
    /\ nvdPc' = "returned"
    /\ nvdResult' = [df |-> all_cves, csv |-> all_cves]
    /\ UNCHANGED <<start_index, total_results, all_cves, requests, nvdResponse>>
    /\ UNCHANGED <<routerVars, ragVars, sqlVars, sumVars, appVars, concVars, schemaVars>>

(***************************************************************************)
(* Claims about process_query, checked under Spec.                         *)
(***************************************************************************)
Range(seq) == { seq[i] : i \in 1..Len(seq) }

IsPrefix(p, seq) == Len(p) <= Len(seq) /\ SubSeq(seq, 1, Len(p)) = p

\* The current call has its classification.
Classified == calls # <<>> /\ raisedAt # "classify"

DataQueryCalls == <<"classify", "retrieve", "generate_sql", "execute", "summarize">>

\* C1: a question whose classification is exactly "general" gets the fixed
\* greeting with no table, and the only collaborator call of that
\* process_query call is the classification: no retrieval, no SQL generation,
\* no warehouse execution, no second model call.
C1_GeneralReturnsGreeting ==
    (Classified /\ query_type = General) =>
        /\ pc = "done"
        /\ calls = <<"classify">>
        /\ DOMAIN result = {"answer", "dataframe"}
        /\ result.answer = Greeting
        /\ result.dataframe = NoneVal

C1_Witness ==
    /\ pc = "done"
    /\ Classified
    /\ query_type = General
    /\ result.answer = Greeting

\* C2: no exception escapes process_query: whichever step raises
\* (classification, retrieval, generation, execution, summarization), the
\* call returns a failure result whose answer is the user-readable message
\* built around the error and whose error field is the raw error text.
C2_NoExceptionEscapes ==
    /\ pc # "crashed"
    /\ raisedAt # "none" =>
          /\ pc = "done"
          /\ DOMAIN result = {"answer", "dataframe", "error"}
          /\ result.error = raisedText
          /\ Head(result.answer) = Lit("I encountered an error processing your query: ")
          /\ IsPrefix(raisedText, Tail(result.answer))
          /\ result.dataframe = NoneVal

C2_Witness ==
    /\ pc = "done"
    /\ raisedAt = "summarize"
    /\ result.error = FormatError

\* C3: when the warehouse fails while executing the generated query, the
\* call returns a result with a populated error field and no table, whose
\* answer contains the database error message; nothing propagates to the
\* caller.
C3_ExecutionFailureSurfaced ==
    raisedAt = "execute" =>
        /\ pc = "done"
        /\ "error" \in DOMAIN result
        /\ result.error # <<>>
        /\ result.dataframe = NoneVal
        /\ driverError \in DbErrors
        /\ \E i \in 1..Len(result.answer) :
              /\ result.answer[i].s = <<driverError>>
              /\ result.answer[i].t = "{str(e)}"

C3_Witness ==
    /\ pc = "done"
    /\ raisedAt = "execute"
    /\ driverError = "connection lost"
    /\ calls = <<"classify", "retrieve", "generate_sql", "execute">>

\* C4: a classifier response that, trimmed and lower-cased, is none of the
\* three labels is handled as a data_query (retrieve, generate SQL, execute,
\* summarize), and the unrecognized label by itself produces no failure: a
\* failure result comes only from a step that raised.
C4_UnknownLabelIsDataQuery ==
    (Classified /\ query_type \notin Labels) =>
        /\ IsPrefix(calls, DataQueryCalls)
        /\ pc \notin {"explain", "crashed"}
        /\ (pc = "done" /\ raisedAt = "none") =>
              /\ calls = DataQueryCalls
              /\ DOMAIN result = {"answer", "dataframe", "sql_query"}
              /\ result.dataframe = df
              /\ result.sql_query = sql_query
        /\ (pc = "done" /\ "error" \in DOMAIN result) =>
              raisedAt \in {"retrieve", "generate_sql", "execute", "summarize"}

C4_Witness ==
    /\ pc = "done"
    /\ Classified
    /\ query_type = <<"d","a","t","a"," ","q","u","e","r","y">>
    /\ raisedAt = "none"
    /\ calls = DataQueryCalls
    /\ "sql_query" \in DOMAIN result

\* The current call has returned a result without any step raising.
Succeeded == pc = "done" /\ raisedAt = "none"

\* The current call went down the data_query path.
OnDataQueryPath == Classified /\ ~IsGeneral(query_type) /\ ~IsExplanation(query_type)

\* C16: every result process_query returns has an answer; it has an error
\* field exactly when a step of the call raised; a table that is not None
\* and a generated-query field are in the result of a data_query whose
\* execution and summary succeeded and in no other: the general, explanation
\* and failure results have the table None and no generated-query field.
C16_ResultShape ==
    pc \in {"done", "crashed"} =>
        /\ pc = "done"
        /\ "answer" \in DOMAIN result
        /\ result.answer # <<>>
        /\ "dataframe" \in DOMAIN result
        /\ ("error" \in DOMAIN result) <=> (raisedAt # "none")
        /\ (result.dataframe # NoneVal) <=> (OnDataQueryPath /\ Succeeded)
        /\ ("sql_query" \in DOMAIN result) <=> (OnDataQueryPath /\ Succeeded)
        /\ (OnDataQueryPath /\ Succeeded) => calls = DataQueryCalls

C16_Witness ==
    /\ Succeeded
    /\ OnDataQueryPath
    /\ result.dataframe # NoneVal
    /\ IsEmpty(result.dataframe)
    /\ "sql_query" \in DOMAIN result
    /\ "error" \notin DOMAIN result

\* The result shows the query text txt: as its generated-query field or in
\* its answer.
ShowsQuery(res, txt) ==
    \/ "sql_query" \in DOMAIN res /\ res.sql_query = txt
    \/ \E i \in 1..Len(res.answer) :
          /\ res.answer[i].s = txt
          /\ res.answer[i].t \in {"\n\n<details>...{sql_query}...</details>", "{sql_query}"}

RephraseGuidance ==
    Lit("\n\nPlease try rephrasing your question or check the Snowflake connection.")

\* C17: when the generated query is empty or malformed (the warehouse
\* rejects it with a compilation error), the result returned gives guidance
\* to rephrase and includes the text of the generated query.
C17_MalformedQueryShown ==
    (pc = "done" /\ raisedAt = "execute" /\ driverError = "SQL compilation error") =>
        /\ RephraseGuidance \in Range(result.answer)
        /\ \/ ShowsQuery(result, sql_query)
           \/ ShowsQuery(result, callLog[3].ret)

\* The part of C17 the code does establish: the guidance to rephrase.
C17_Lemma_GuidanceGiven ==
    (pc = "done" /\ raisedAt = "execute" /\ driverError = "SQL compilation error") =>
        RephraseGuidance \in Range(result.answer)

ExplanationCalls == <<"classify", "retrieve", "explain">>

\* C18: for a question classified "explanation" the call retrieves first
\* and then makes exactly one free-form generation call, passing it the
\* retrieved context and the question; it generates no SQL and executes
\* nothing on the warehouse; and it returns the generated text as the answer
\* with no table.
C18_ExplanationPath ==
    (Classified /\ IsExplanation(query_type)) =>
        /\ IsPrefix(calls, ExplanationCalls)
        /\ pc \in {"retrieve", "explain", "done"}
        /\ Len(calls) >= 3 =>
              callLog[3].args = [context |-> callLog[2].ret, question |-> query]
        /\ Succeeded =>
              /\ calls = ExplanationCalls
              /\ result = [answer |-> callLog[3].ret, dataframe |-> NoneVal]

C18_Witness ==
    /\ Classified
    /\ IsExplanation(query_type)
    /\ Succeeded
    /\ calls = ExplanationCalls
    /\ result.answer \in ExplainAnswers(context, query)

\* C19: on the data_query path the calls after the classification are the
\* retrieval, the SQL generation, the execution and the summary, in this
\* order and each at most once; the string passed to the warehouse is the
\* cleaned model response; and the table summarized and the table returned
\* are the table the warehouse returned.
C19_DataQueryPath ==
    OnDataQueryPath =>
        /\ IsPrefix(calls, DataQueryCalls)
        /\ Len(calls) >= 4 => callLog[4].args.query = CleanSql(callLog[3].ret)
        /\ Len(calls) >= 5 => callLog[5].args.df = callLog[4].ret
        /\ Succeeded =>
              /\ calls = DataQueryCalls
              /\ result.dataframe = callLog[4].ret
              /\ result.sql_query = callLog[4].args.query

C19_Witness ==
    /\ OnDataQueryPath
    /\ Succeeded
    /\ calls = DataQueryCalls
    /\ callLog[3].ret # callLog[4].args.query
    /\ RowCount(callLog[4].ret) = 3

RemoteCalls == {"classify", "retrieve", "explain", "generate_sql", "execute"}

C21_ClassificationIsLabel ==
    Classified => query_type \in Labels

\* The part of C21 the code does establish: one generation request per
\* classification, whose response comes back trimmed and lower-cased.
C21_Lemma_OneRequestNormalised ==
    Classified =>
        /\ Cardinality({ i \in 1..Len(calls) : calls[i] = "classify" }) = 1
        /\ calls[1] = "classify"
        /\ query_type = Lower(Strip(callLog[1].ret))

\* C23: no step of process_query, on any path, writes the router's schema
\* snapshot or the store of the retrieval engine, and the snapshot is the
\* one fetched by the single get_schema_info call of the constructor: no
\* later call fetches it again.
C23_QueryLeavesStateUnchanged ==
    /\ [](schemaFetches = 1)
    /\ [][/\ schema_info' = schema_info
          /\ schemaFetches' = schemaFetches
          /\ vector_store' = vector_store]_vars

C23_Witness ==
    /\ Succeeded
    /\ OnDataQueryPath
    /\ schema_info # <<>>
    /\ callLog[3].args.schema_info = FormatSchemaInfo(schema_info)
    /\ schemaFetches = 1
    /\ vector_store = SeedStore

\* The warehouse has returned a table to the current call, which is over.
ExecutedAndOver ==
    /\ OnDataQueryPath
    /\ pc = "done"
    /\ Len(calls) >= 4
    /\ ~callLog[4].raised

\* The summary of line 140 formats the second column as a number.
SecondColumnFormattable(d) ==
    ~(Len(d.cols) >= 2 /\ NumericCols(d) # <<>> /\ ~IsEmpty(d)
      /\ RowCount(d) <= 10 /\ d.cols[2] = "str")

\* C27: a data_query whose warehouse execution succeeded returns a success
\* result, with no error field, that carries the table the warehouse
\* returned and the generated query, whatever the types and the order of
\* the columns of that table.
C27_ExecutedQuerySucceeds ==
    ExecutedAndOver =>
        /\ "error" \notin DOMAIN result
        /\ result.dataframe = callLog[4].ret
        /\ "sql_query" \in DOMAIN result
        /\ result.sql_query = sql_query

\* The part of C27 the code does establish: success for every table whose
\* second column can be formatted as a number where line 140 does so.
C27_Lemma_FormattableSucceeds ==
    (ExecutedAndOver /\ SecondColumnFormattable(callLog[4].ret)) =>
        /\ "error" \notin DOMAIN result
        /\ result.dataframe = callLog[4].ret
        /\ "sql_query" \in DOMAIN result
        /\ result.sql_query = sql_query

(***************************************************************************)
(* The clean-up and the summary applied to every input of a bounded set.   *)
(***************************************************************************)
SqlIdle == sqlRaw = <<>> /\ sqlClean = NoneVal

SqlInit == sqlRaw \in SqlResponses /\ sqlClean = NoneVal

ApplyCleanSql ==
    /\ sqlClean = NoneVal
    /\ sqlClean' = [value |-> CleanSql(sqlRaw)]
    /\ UNCHANGED sqlRaw
    /\ UNCHANGED <<routerVars, ragVars, sumVars, appVars, concVars, schemaVars, nvdVars>>

SumIdle == sumTable = NoneVal /\ sumResult = NoneVal

SumInit == sumTable \in Tables \cup {NoneVal} /\ sumResult = NoneVal

ApplySummary ==
    /\ sumResult = NoneVal
    /\ sumResult' = GenerateNaturalResponse(sumTable)
    /\ UNCHANGED sumTable
    /\ UNCHANGED <<routerVars, ragVars, sqlVars, appVars, concVars, schemaVars, nvdVars>>

(***************************************************************************)
(* Claims about the clean-up of _generate_sql, checked under SpecSql.      *)
(***************************************************************************)
\* Query text without a backtick.
PlainBodies == { b \in Bodies : Backtick \notin Range(b) }

\* C5: a response wrapped in a leading and a trailing triple-backtick fence,
\* whatever language tag (none, sql, SQL, another) follows the opening fence,
\* is cleaned to its inner text (trimmed), so the cleaned query holds neither
\* a fence character nor the language tag.
C5_FencedCleansToInnerText ==
    \A tag \in LanguageTags, body \in PlainBodies :
        (sqlClean # NoneVal /\ sqlRaw = Fence \o tag \o body \o Fence) =>
            sqlClean.value = Strip(body)

\* What the code does establish for C5: the same for the tags it knows, none
\* and the lower-case sql.
C5_Lemma_SqlOrNoTag ==
    \A tag \in {<<>>, <<"s","q","l">>}, body \in PlainBodies :
        (sqlClean # NoneVal /\ sqlRaw = Fence \o tag \o body \o Fence) =>
            sqlClean.value = Strip(body)

\* C6 as claimed: a response that neither starts nor ends with a
\* triple-backtick fence is returned unchanged.
C6_UnfencedUnchanged ==
    (sqlClean # NoneVal /\ ~StartsWith(sqlRaw, Fence) /\ ~EndsWith(sqlRaw, Fence)) =>
        sqlClean.value = sqlRaw

\* C6 amended: a response that, with its surrounding whitespace trimmed,
\* neither starts nor ends with a triple-backtick fence is returned with that
\* whitespace trimmed and otherwise unchanged.
C6_UnfencedOnlyTrimmed ==
    LET trimmed == Strip(sqlRaw) IN
    (sqlClean # NoneVal /\ ~StartsWith(trimmed, Fence) /\ ~EndsWith(trimmed, Fence)) =>
        sqlClean.value = trimmed

\* An unfenced response with a backtick inside and whitespace around it.
C6_Witness ==
    /\ sqlRaw = <<" ", "S", Backtick, "S", "\n">>
    /\ sqlClean # NoneVal
    /\ sqlClean.value = <<"S", Backtick, "S">>

(***************************************************************************)
(* Claims about _generate_natural_response, checked under SpecSum.         *)
(***************************************************************************)
NonEmptyTable(d) == d # NoneVal /\ d.n > 0 /\ Len(d.cols) > 0

HasNumericColumn(d) == \E c \in 1..Len(d.cols) : d.cols[c] = "num"

FirstNumericColumn(d) ==
    CHOOSE c \in 1..Len(d.cols) :
        d.cols[c] = "num" /\ \A b \in 1..(c - 1) : d.cols[b] # "num"

IsBullet(part) == part.t = BulletPart([cols |-> <<"num", "num">>, n |-> 1, base |-> 1], 1).t

Bullets(text) == SelectSeq(text, IsBullet)

\* C7: for every non-empty table with at least one numeric column, a table
\* of a single numeric column included, the summary reports the sum of the
\* first numeric column.
C7_SummaryReportsSum ==
    (sumResult # NoneVal /\ NonEmptyTable(sumTable) /\ HasNumericColumn(sumTable)) =>
        /\ ~sumResult.raised
        /\ \E i \in 1..Len(sumResult.text) :
              LET c == FirstNumericColumn(sumTable) IN
              /\ sumResult.text[i].t = TotalPart(sumTable, c).t
              /\ sumResult.text[i].n = <<c>> \o Fmt2(SumRows(sumTable, c, sumTable.n))

\* C8: for every non-empty table, whatever its columns: with at most 10 rows
\* the summary has one entry per row, in table order; with more than 10 rows
\* it has no row entry and says that only the top results are shown.
C8_RowsEnumeratedOrTopShown ==
    (sumResult # NoneVal /\ NonEmptyTable(sumTable)) =>
        /\ ~sumResult.raised
        /\ LET entries == Bullets(sumResult.text) IN
           IF sumTable.n <= 10
           THEN /\ Len(entries) = sumTable.n
                /\ \A r \in 1..sumTable.n :
                      IsPrefix(FmtPlain(sumTable, r, 1), entries[r].n)
           ELSE /\ entries = <<>>
                /\ TopTenPart \in Range(sumResult.text)

\* C9: the summary of an absent or empty table is the fixed no-data message,
\* and every non-empty table has a summary, which starts with the row count.
C9_NoDataOrRowCountFirst ==
    sumResult # NoneVal =>
        IF NonEmptyTable(sumTable)
        THEN /\ ~sumResult.raised
             /\ Head(sumResult.text).t = "Found {len(df)} results. "
             /\ Head(sumResult.text).n = <<sumTable.n>>
        ELSE sumResult = Returned(NoDataMessage)

\* What the code does establish for C9: the no-data message, and the row
\* count at the start of every summary that is returned.
C9_Lemma_WhenReturned ==
    sumResult # NoneVal =>
        IF NonEmptyTable(sumTable)
        THEN sumResult.raised \/
               /\ Head(sumResult.text).t = "Found {len(df)} results. "
               /\ Head(sumResult.text).n = <<sumTable.n>>
        ELSE sumResult = Returned(NoDataMessage)

(***************************************************************************)
(* Claims about retrieve_context, checked under SpecRag.                   *)
(***************************************************************************)
Min(a, b) == IF a < b THEN a ELSE b

\* C10: for every store and every k >= 0, retrieve_context(query, k) returns
\* exactly min(k, chunks in the store) chunks, each a chunk of the store; a k
\* above the store size returns all chunks, and no k makes the call fail.
C10_ReturnsMinKChunks ==
    (ragCall # NoneVal /\ ragCall.embedOk) =>
        /\ ~ragCall.raised
        /\ Len(ragCall.docs) = Min(ragCall.k, StoreSize(ragCall.before))
        /\ \A i \in 1..Len(ragCall.docs) :
              ragCall.docs[i] \in Range(ragCall.before.docs)

\* What the code does establish for C10: the same for every k >= 1.
C10_Lemma_PositiveK ==
    (ragCall # NoneVal /\ ragCall.embedOk /\ ragCall.k >= 1) =>
        /\ ~ragCall.raised
        /\ Len(ragCall.docs) = Min(ragCall.k, StoreSize(ragCall.before))
        /\ \A i \in 1..Len(ragCall.docs) :
              ragCall.docs[i] \in Range(ragCall.before.docs)

\* The distance of the i-th returned chunk of the last retrieval call.
HitDistance(i) == Distance(ragCall.query, ragCall.before.docs[ragCall.pos[i]])

C11_Lemma_OrderedBySimilarity ==
    (ragCall # NoneVal /\ ~ragCall.raised) =>
        /\ \A i, j \in 1..Len(ragCall.pos) :
              i < j => HitDistance(i) <= HitDistance(j)
        /\ \A i \in 1..Len(ragCall.pos) :
              \A n \in 1..StoreSize(ragCall.before) :
                  n \notin Range(ragCall.pos) =>
                      HitDistance(i) <= Distance(ragCall.query, ragCall.before.docs[n])

\* C12: a retrieval on an engine with no store returns the empty list and
\* does not raise, whatever k is and whether or not the embedding provider
\* would answer.
C12_EmptyStoreReturnsEmpty ==
    (ragCall # NoneVal /\ StoreSize(ragCall.before) = 0) =>
        /\ ~ragCall.raised
        /\ ragCall.docs = <<>>

C12_Witness ==
    /\ ragCall # NoneVal
    /\ ragCall.via = "retrieve_context"
    /\ StoreSize(ragCall.before) = 0
    /\ ragCall.k = 0
    /\ ~ragCall.embedOk
    /\ ragCall.docs = <<>>

\* The last retrieval call went through get_relevant_context and found no
\* chunks.
FormattedNoChunks ==
    /\ ragCall # NoneVal
    /\ ragCall.via = "get_relevant_context"
    /\ ~ragCall.raised
    /\ ragCall.docs = <<>>

DocsBeforeAdd == IF lastAdd.before = NoneVal THEN <<>> ELSE lastAdd.before.docs

\* The documents of the last add_documents call that the store held already.
Reingested ==
    { n \in 1..Len(lastAdd.documents) :
        \E c \in Range(DocsBeforeAdd) : c.doc = lastAdd.documents[n].id }

\* C14: add_documents appends the chunks of every document it is given,
\* also of a document the store holds already, and leaves the chunks stored
\* before where and as they were.
C14_ReingestAppends ==
    lastAdd # NoneVal =>
        /\ vector_store # NoneVal
        /\ vector_store.docs = DocsBeforeAdd \o SplitDocuments(lastAdd.documents)
        /\ \A q \in Queries : \A n \in 1..Len(DocsBeforeAdd) :
              Distance(q, vector_store.docs[n]) = Distance(q, DocsBeforeAdd[n])

C14_Witness ==
    /\ lastAdd # NoneVal
    /\ Reingested # {}
    /\ \E i, j \in 1..StoreSize(vector_store) :
          /\ i <= Len(DocsBeforeAdd)
          /\ j > Len(DocsBeforeAdd)
          /\ vector_store.docs[i] = vector_store.docs[j]

\* C24: the store only grows: whatever is constructed or added, every chunk
\* the store held stays in it at its place with its text, source tag and
\* embedding, and add_documents has only the chunks of the documents it was
\* given embedded.
C24_StoreGrowsMonotonically ==
    /\ [][vector_store # NoneVal =>
            /\ vector_store' # NoneVal
            /\ IsPrefix(vector_store.docs, vector_store'.docs)
            /\ \A n \in 1..Len(vector_store.docs) :
                  EmbedChunk(vector_store'.docs[n]) = EmbedChunk(vector_store.docs[n])]_vars
    /\ [](lastAdd # NoneVal => lastAdd.embedded = SplitDocuments(lastAdd.documents))

C24_Witness ==
    /\ lastAdd # NoneVal
    /\ lastAdd.before # NoneVal
    /\ IsPrefix(SeedStore.docs, lastAdd.before.docs)
    /\ StoreSize(lastAdd.before) > StoreSize(SeedStore)
    /\ StoreSize(vector_store) > StoreSize(lastAdd.before)

\* The documents the engine can hold chunks of.
KnownDocs == Range(SeedDocs) \cup NewDocs

\* The chunks of the store that insertion b put there, in store order.
ChunksOfBatch(b) ==
    LET at == SelectSeq([n \in 1..Len(batchOf) |-> n], LAMBDA n : batchOf[n] = b)
    IN  [i \in 1..Len(at) |-> vector_store.docs[at[i]]]

\* C25: every chunk of the store was put there by one insertion, the seed
\* load or one add_documents call, whose chunks stand together in the store
\* and are the chunks of the whole documents of that batch; every chunk is a
\* piece of one document and carries that document's metadata, its source
\* tag included (and has no source tag when the document has none).
C25_ChunkProvenance ==
    vector_store # NoneVal =>
        /\ Len(batchOf) = Len(vector_store.docs)
        /\ \A m, n \in 1..Len(batchOf) : m <= n => batchOf[m] <= batchOf[n]
        /\ \A b \in Range(batchOf) :
              IF b = 0 THEN ChunksOfBatch(b) = SplitDocuments(SeedDocs)
              ELSE \E documents \in Batches : ChunksOfBatch(b) = SplitDocuments(documents)
        /\ \A n \in 1..Len(vector_store.docs) :
              LET c == vector_store.docs[n] IN
              \E d \in KnownDocs :
                  /\ c.doc = d.id
                  /\ c.piece \in 1..NumChunks(d.len)
                  /\ c.metadata = d.metadata
                  /\ SourceOf(c) = IF "source" \in DOMAIN d.metadata
                                   THEN d.metadata.source ELSE "unknown"

C25_Witness ==
    /\ vector_store # NoneVal
    /\ Cardinality(Range(batchOf)) >= 2
    /\ \E n \in 1..Len(vector_store.docs) :
          /\ batchOf[n] # 0
          /\ vector_store.docs[n].piece = 2
          /\ "source" \notin DOMAIN vector_store.docs[n].metadata

\* The last retrieval went through get_relevant_context and found chunks.
FormattedChunks ==
    /\ ragCall # NoneVal
    /\ ragCall.via = "get_relevant_context"
    /\ ~ragCall.raised
    /\ ragCall.docs # <<>>

\* C26: for a non-empty list of retrieved chunks the formatted context has
\* one block per chunk, in retrieval order; the i-th block is headed
\* "Context i (Source: tag)", i counted from 1, with the tag of the i-th
\* chunk or "unknown" when it has none, and then has the text of that chunk.
C26_ContextBlocks ==
    FormattedChunks =>
        /\ Len(ragCall.context) = Len(ragCall.docs)
        /\ \A i \in 1..Len(ragCall.docs) :
              LET block == ragCall.context[i]
                  c     == ragCall.docs[i]
              IN  /\ block.t = "Context {i+1} (Source: {source}):\n{page_content}"
                  /\ block.n = <<i, c.doc, c.piece>>
                  /\ block.s = <<IF "source" \in DOMAIN c.metadata
                                 THEN c.metadata.source ELSE "unknown">>

C26_Witness ==
    /\ FormattedChunks
    /\ Len(ragCall.context) = 3
    /\ ragCall.context[1].s = <<"unknown">>
    /\ ragCall.context[3].s # <<"unknown">>
    /\ ragCall.context[3].n[1] = 3

(***************************************************************************)
(* Claims about the chat flow of app.py, checked under SpecApp.            *)
(***************************************************************************)
\* The last two messages are a question and its stored reply.
LastTurnStored ==
    /\ Len(messages) >= 2
    /\ messages[Len(messages) - 1].role = "user"
    /\ messages[Len(messages)].role = "assistant"

\* C15: a question asked while no warehouse connection has been made is
\* answered with the fixed connect-first message, and that turn constructs
\* neither the retrieval engine nor the query router and calls neither.
C15_NotConnectedNoPipeline ==
    ~snowflake_connected =>
        /\ rag_engine = NoneVal
        /\ query_router = NoneVal
        /\ chatCalls = <<>>
        /\ LastTurnStored =>
              messages[Len(messages)] = AssistantMessage(NotConnectedMessage, NoneVal, NoneVal)

C15_Witness ==
    /\ ~snowflake_connected
    /\ LastTurnStored
    /\ messages[Len(messages)].content = NotConnectedMessage

(***************************************************************************)
(* Claims about the engine used by several threads, checked under SpecConc.*)
(***************************************************************************)
\* C22: a retrieval that overlaps an ingest is computed from the store
\* before the ingest or from the store after its whole batch, never from a
\* store holding part of the batch; and the chunks of two overlapping
\* ingests are not interleaved in the store.
C22_IngestIsAtomic ==
    /\ observed # NoneVal => ~observed.midInsertion
    /\ \A i, j, k \in 1..Len(owners) :
          (i < j /\ j < k /\ owners[i] = owners[k]) => owners[j] = owners[i]

\* Once every ingest has returned, the store holds the chunks of all of them.
C22_NoBatchLost ==
    (\A t \in Threads : ingest[t].pc \in {"idle", "done"}) =>
        Len(owners) = begun + Cardinality({ i \in 1..Len(owners) : owners[i] = 0 })

(***************************************************************************)
(* Claims about the session of app.py over several script runs, checked    *)
(* under SpecApp.                                                          *)
(***************************************************************************)
\* The last script run was a chat turn that called process_query.
QuestionProcessed == "process_query" \in Range(chatCalls)

\* C28: whenever a question is processed, the connector the session's
\* query router executes it with is the connector the last successful
\* connect stored in the session.
C28_RouterUsesCurrentConnector ==
    QuestionProcessed => query_router.sf_connector = sf_connector

\* The part of C28 the code does establish: the router executes with the
\* connector that was in the session when the router was constructed, which
\* is the current one as long as no connect succeeded since.
C28_Lemma_ConnectorOfConstruction ==
    query_router # NoneVal =>
        /\ query_router.sf_connector # NoneVal
        /\ query_router.sf_connector.id <= Connections
        /\ Connections = 1 => query_router.sf_connector = sf_connector

\* The number of transcript messages of a role.
CountRole(role) ==
    Cardinality({ i \in 1..Len(messages) : messages[i].role = role })

\* The user messages no assistant message was appended for.
Unanswered == CountRole("user") - CountRole("assistant")

\* C29: every user message of the transcript, typed in the chat input or
\* added by an example-question button, is answered: once the script run
\* that appended it is over, it is directly followed by one assistant
\* message, and the next message after that, if any, is a user message.
C29_EveryUserMessageAnswered ==
    \A i \in 1..Len(messages) :
        messages[i].role = "user" =>
            /\ i < Len(messages)
            /\ messages[i + 1].role = "assistant"
            /\ i + 2 <= Len(messages) => messages[i + 2].role = "user"

\* An unanswered user message stays unanswered: no script run appends an
\* assistant message other than the one for the prompt typed in that run.
C29_Lemma_NeverAnsweredLater ==
    [][Unanswered' >= Unanswered]_vars

\* The typed half of C29: a chat turn appends the prompt and directly after
\* it exactly one assistant message, on every path of the handler.
C29_Lemma_TypedPromptAnswered ==
    [][Len(messages') = Len(messages) + 2 =>
          /\ messages'[Len(messages) + 1].role = "user"
          /\ messages'[Len(messages) + 2].role = "assistant"
          /\ SubSeq(messages', 1, Len(messages)) = messages]_vars

(***************************************************************************)
(* Claims about extract_cve_data, checked under SpecNvd.                   *)
(***************************************************************************)
\* The last iteration ended the loop for one of the three reasons of the
\* code: a request error, an empty page, or the start index reaching the
\* total the first response reported.
LoopEnded ==
    /\ nvdPc = "after"
    /\ \/ nvdResponse.kind = "error"
       \/ nvdResponse.kind = "page" /\ nvdResponse.vulnerabilities = <<>>
       \/ /\ nvdResponse.kind = "page"
          /\ total_results # NoneVal
          /\ start_index >= total_results.value

\* A response the iteration handles without an exception other than
\* RequestException: a request error, or an object whose records all parse
\* and whose totalResults is not null.
WellFormed(resp) ==
    \/ resp.kind = "error"
    \/ /\ resp.kind = "page"
       /\ resp.totalResults # NoneVal
       /\ resp.bad = 0 \/ resp.bad > Len(resp.vulnerabilities)

\* C30: the extraction loop terminates whatever the responses are: every
\* started call leaves the loop and, unless an exception left the function,
\* returns; each iteration on a well-formed response either ends the loop
\* (request error, empty page, start index at or past the total) or goes on
\* with the start index strictly increased by the number of records
\* received; a request error leaves the records fetched so far in place and
\* they are what the call returns.
C30_ExtractionTerminates ==
    /\ (nvdPc = "loop") ~> (nvdPc \in {"returned", "raised"})
    /\ [][nvdPc = "loop" /\ WellFormed(nvdResponse') =>
             \/ LoopEnded' /\ (nvdResponse'.kind = "error" => all_cves' = all_cves)
             \/ /\ nvdPc' = "loop"
                /\ start_index' > start_index
                /\ start_index' = start_index + Len(nvdResponse'.vulnerabilities)
                /\ Len(all_cves') = Len(all_cves) + Len(nvdResponse'.vulnerabilities)]_vars
    /\ [](nvdPc = "returned" =>
             /\ nvdResult.df = all_cves
             /\ Len(nvdResult.df) = start_index)

\* Two pages were fetched, the third request failed, and the records of
\* the two pages were returned.
C30_Witness ==
    /\ nvdPc = "returned"
    /\ nvdResponse.kind = "error"
    /\ requests = 3
    /\ Len(nvdResult.df) >= 2

\* The start index never passes the total by a page or more while the loop
\* goes on, which bounds the number of iterations by the total.
C30_Lemma_IndexBelowTotal ==
    (nvdPc = "loop" /\ requests > 0) =>
        /\ total_results # NoneVal
        /\ start_index < total_results.value
        /\ requests <= start_index

(***************************************************************************)
(* Specifications.                                                         *)
(***************************************************************************)
Init ==
    /\ RouterInit /\ RagInit /\ SqlIdle /\ SumIdle /\ AppInit /\ ConcIdle
    /\ SchemaInit /\ NvdIdle

Next ==
    \/ \E q \in Queries : StartQuery(q)
    \/ Classify
    \/ RetrieveStep
    \/ Explain
    \/ GenerateSql
    \/ Execute
    \/ Summarize

Spec == Init /\ [][Next]_vars

InitRag == RouterInit /\ RagBare /\ SqlIdle /\ SumIdle /\ AppInit /\ ConcIdle /\ SchemaIdle /\ NvdIdle

NextRag ==
    \/ InitializeKnowledgeBase
    \/ \E b \in Batches : AddDocuments(b)
    \/ \E q \in Queries, k \in 0..MaxK, e \in BOOLEAN : Retrieve(q, k, e)
    \/ \E q \in Queries, e \in BOOLEAN : GetContext(q, e)

SpecRag == InitRag /\ [][NextRag]_vars

InitSql == RouterInit /\ RagInit /\ SqlInit /\ SumIdle /\ AppInit /\ ConcIdle /\ SchemaIdle /\ NvdIdle

NextSql == ApplyCleanSql

SpecSql == InitSql /\ [][NextSql]_vars

InitApp == RouterInit /\ RagInit /\ SqlIdle /\ SumIdle /\ AppInit /\ ConcIdle /\ SchemaIdle /\ NvdIdle

NextApp ==
    \/ \E ok \in BOOLEAN : Connect(ok)
    \/ \E q \in ExampleQuestions : ExampleQuestion(q)
    \/ \E prompt \in Prompts : Chat(prompt)

SpecApp == InitApp /\ [][NextApp]_vars

InitConc == RouterInit /\ RagBare /\ SqlIdle /\ SumIdle /\ AppInit /\ ConcIdle /\ SchemaIdle /\ NvdIdle

NextConc ==
    \/ ConcInitialize
    \/ \E t \in Threads, b \in ConcBatches : IngestBegin(t, b)
    \/ \E t \in Threads : IngestTest(t)
    \/ \E t \in Threads : IngestInsert(t)
    \/ \E t \in Threads : IngestCreate(t)
    \/ \E q \in Queries : ConcRetrieve(q)

SpecConc == InitConc /\ [][NextConc]_vars

InitNvd == RouterInit /\ RagInit /\ SqlIdle /\ SumIdle /\ AppInit /\ ConcIdle /\ SchemaIdle /\ NvdIdle

NextNvd ==
    \/ ExtractCveData
    \/ \E resp \in Responses(requests + 1) : Iteration(resp)
    \/ ReturnFrame

\* The call runs in one thread and every request returns or raises within
\* its timeout, so a step that is possible is eventually taken.
SpecNvd == InitNvd /\ [][NextNvd]_vars /\ WF_vars(NextNvd)

InitSum == RouterInit /\ RagInit /\ SqlIdle /\ SumInit /\ AppInit /\ ConcIdle /\ SchemaIdle /\ NvdIdle

NextSum == ApplySummary

SpecSum == InitSum /\ [][NextSum]_vars

====
